---- MODULE Spec2Model ----
(***************************************************************************)
(* Frame orchestration of RVPT (src/src/rvpt/rvpt.cpp): RVPT::draw() run   *)
(* by one host thread, step by step between its blocking waits, against a  *)
(* GPU that finishes submitted work asynchronously; RVPT::swapchain_reinit *)
(* with its three outcomes; the per-image fence table.                     *)
(***************************************************************************)
EXTENDS Integers, Sequences, FiniteSets, TLC

\* ------------------------------------------------------------------ bounds
MaxImages == 2      \* swapchain image counts the builder can settle on: 1..MaxImages
MaxDim == 33        \* output image widths and heights tried: 1..MaxDim, and 512

\* frames in flight (the number of per_frame_data and sync_resources slots)
MAX_FRAMES_IN_FLIGHT == 2

\* width and height of every slot's output image (add_per_frame_data)
OutputImageSize == 512

\* the divisor of vkCmdDispatch's group counts (record_compute_command_buffer)
WorkGroupSize == 16

VARIABLES
    pc,                      \* position of the host thread inside draw()
    current_frame_index,     \* RVPT::current_frame_index
    per_frame_data,          \* slot -> [raytrace_work_fence: signaled?]
    sync_resources,          \* slot -> [command_fence: signaled?]
    frames_inflight_fences,  \* image index (1-based sequence) -> NoFence or slot
    compute_queue,           \* TRUE iff a dedicated compute queue exists
    vkb_swapchain,           \* [image_count]
    swapchain_image_views,   \* [count, live]
    framebuffers,            \* [count, views_live]
    swapchain_image_index,   \* draw()'s local of that name
    framebuffer_resized,     \* RVPT::framebuffer_resized
    window_extent,           \* the window's framebuffer extent: "positive" or "zero"
    gpu_compute,             \* slot -> TRUE iff its compute submission is in flight
    gpu_graphics,            \* slot -> the graphics submission in flight, or NoWork
    tick,                    \* what the tick in progress (or the last one) has done
    startup,                 \* main(), RVPT::initialize() and RVPT::shutdown():
                             \* position, the local init, the context objects
                             \* that exist, the objects shutdown() has destroyed
                             \* in order, whether it was called with work in flight
    history                  \* per fence: waited on since its last submission?
                             \* and the number of ticks completed, modulo the
                             \* number of slots

vars == <<pc, current_frame_index, per_frame_data, sync_resources,
          frames_inflight_fences, compute_queue, vkb_swapchain,
          swapchain_image_views, framebuffers, swapchain_image_index,
          framebuffer_resized, window_extent, gpu_compute, gpu_graphics,
          tick, startup, history>>

\* ------------------------------------------------------------- value sets
NoFence == -1          \* nullptr in frames_inflight_fences
InvalidFence == -2     \* a handle that is no fence, read from outside the table
NoIndex == -1
ImageCounts == 1..MaxImages
Slots == DOMAIN sync_resources
AcquireResults == {"VK_SUCCESS", "VK_SUBOPTIMAL_KHR", "VK_ERROR_OUT_OF_DATE_KHR", "VK_ERROR"}
PresentResults == AcquireResults
ReinitOutcomes == {"build_failed", "images_failed", "ok"}
WindowExtents == {"positive", "zero"}

NoWork == [state |-> "none", image |-> NoIndex]

\* what a tick has done so far: the slot it runs on, whether its acquire returned
\* out-of-date, whether anything but success / out-of-date on acquire and success
\* with no resize pending on present was seen, whether the condition of line 161
\* held after its present, whether a call returned a failure (an acquire or
\* present result that is none of success, suboptimal, out-of-date; a
\* swapchain_reinit that returned false), and how many compute submissions,
\* recordings, table registrations, graphics submissions, presents and runs of
\* swapchain_reinit it has made
NewTick(idx) ==
    [start_index |-> idx, stale |-> FALSE, off_nominal |-> FALSE,
     present_trigger |-> FALSE, failed |-> FALSE,
     compute_submits |-> 0, recorded |-> 0, registered |-> 0, submitted |-> 0,
     presents |-> 0, reinits |-> 0]

\* the objects context_init creates, in the order it creates them
ContextOrder ==
    <<"inst", "surf", "physical_device", "device", "graphics_queue", "present_queue">>
ContextObjects(k) == {ContextOrder[i] : i \in 1..k}

\* lines 407-477: what add_per_frame_data creates for slot s. Objects are named
\* by kind and owning slot. The output image is w by h; the fence starts
\* signaled; the command buffer is empty; the sampling set has the output image
\* at binding 0, the compute set the output image, the camera, random and
\* settings uniform buffers and the sphere storage buffer at bindings 0-4.
PerFrameDataOf(s, w, h) ==
    [output_image |-> [width |-> w, height |-> h],
     raytrace_command_buffer |-> <<>>,
     raytrace_work_fence |-> TRUE,
     image_descriptor_set |-> <<<<"output_image", s>>>>,
     raytracing_descriptor_sets |->
         <<<<"output_image", s>>, <<"camera_uniform", s>>, <<"random_uniform", s>>,
           <<"settings_uniform", s>>, <<"sphere_buffer", s>>>>]

NewPerFrameData(s) == PerFrameDataOf(s, OutputImageSize, OutputImageSize)
NewSyncResources == [command_fence |-> TRUE]

\* main() has reached its loop: initialize() created everything for n frames
StartupDone(n) ==
    [pc |-> "render_loop", init |-> TRUE, frames |-> n,
     context |-> ContextObjects(Len(ContextOrder)),
     destroyed |-> <<>>, busy |-> FALSE]

\* ------------------------------------------------------------------- init
Init ==
    \E n \in 1..MAX_FRAMES_IN_FLIGHT, cq \in BOOLEAN, ic \in ImageCounts :
        /\ pc = "idle"
        /\ current_frame_index = 0
        /\ per_frame_data = [s \in 0..(n - 1) |-> NewPerFrameData(s)]
        /\ sync_resources = [s \in 0..(n - 1) |-> NewSyncResources]
        /\ startup = StartupDone(n)
        /\ frames_inflight_fences = [i \in 1..ic |-> NoFence]
        /\ compute_queue = cq
        /\ vkb_swapchain = [image_count |-> ic]
        /\ swapchain_image_views = [count |-> ic, live |-> TRUE]
        /\ framebuffers = [count |-> ic, views_live |-> TRUE]
        /\ swapchain_image_index = NoIndex
        /\ framebuffer_resized = FALSE
        /\ window_extent = "positive"
        /\ gpu_compute = [s \in 0..(n - 1) |-> FALSE]
        /\ gpu_graphics = [s \in 0..(n - 1) |-> NoWork]
        /\ tick = NewTick(0)
        /\ history = [rt_waited |-> [s \in 0..(n - 1) |-> FALSE],
                      cmd_waited |-> [s \in 0..(n - 1) |-> FALSE],
                      completed |-> 0]

\* ------------------------------------------------- RVPT::draw, lines 109-174
cur == current_frame_index

\* line 113 and the bookkeeping of a tick that starts: raytrace_work_fence.reset()
ResetWorkFence ==
    /\ pc = "idle"
    /\ per_frame_data' = [per_frame_data EXCEPT ![cur].raytrace_work_fence = FALSE]
    /\ tick' = NewTick(cur)
    /\ history' = [history EXCEPT !.rt_waited[cur] = TRUE]
    /\ pc' = "update"
    /\ UNCHANGED <<current_frame_index, sync_resources, frames_inflight_fences,
                   compute_queue, startup, vkb_swapchain, swapchain_image_views, framebuffers,
                   swapchain_image_index, framebuffer_resized, window_extent,
                   gpu_compute, gpu_graphics>>

\* SelectSlot without the wait of line 112: the fence is reset and the slot reused
\* whether or not its compute pass has finished
SelectSlotNoWait == ResetWorkFence

\* lines 111-113: raytrace_work_fence.wait() returns once the fence is signaled,
\* then raytrace_work_fence.reset()
SelectSlot ==
    /\ pc = "idle"
    /\ per_frame_data[cur].raytrace_work_fence
    /\ ResetWorkFence

\* lines 552-553: the group counts of vkCmdDispatch along one dimension
\* (unsigned integer division)
DispatchGroupsUp(n) == (n + WorkGroupSize - 1) \div WorkGroupSize

DispatchGroups(n) == n \div WorkGroupSize

\* lines 540-556: the content of the recorded compute command buffer, its
\* vkCmdDispatch group counts
RecordedCompute(image) ==
    <<DispatchGroups(image.width), DispatchGroups(image.height)>>

\* lines 115-119 with the sphere buffer recreated and bound anew before its copy
UpdateHostDataRebind ==
    /\ pc = "update"
    /\ per_frame_data' = [per_frame_data EXCEPT
                              ![cur].raytracing_descriptor_sets[5] =
                                  <<"sphere_buffer_recreated", cur>>]
    /\ pc' = "record_compute"
    /\ UNCHANGED <<current_frame_index, sync_resources,
                   frames_inflight_fences, compute_queue, startup, vkb_swapchain,
                   swapchain_image_views, framebuffers, swapchain_image_index,
                   framebuffer_resized, window_extent, gpu_compute, gpu_graphics,
                   tick, history>>

\* lines 115-119: the four copy_to calls into the slot's host-visible buffers
UpdateHostData ==
    /\ pc = "update"
    /\ pc' = "record_compute"
    /\ UNCHANGED <<current_frame_index, per_frame_data, sync_resources,
                   frames_inflight_fences, compute_queue, startup, vkb_swapchain,
                   swapchain_image_views, framebuffers, swapchain_image_index,
                   framebuffer_resized, window_extent, gpu_compute, gpu_graphics,
                   tick, history>>

\* draw() without lines 121-125: nothing is submitted with raytrace_work_fence
SubmitComputeSkipped ==
    /\ pc = "record_compute"
    /\ pc' = "wait_command_fence"
    /\ UNCHANGED <<current_frame_index, per_frame_data, sync_resources,
                   frames_inflight_fences, compute_queue, startup, vkb_swapchain,
                   swapchain_image_views, framebuffers, swapchain_image_index,
                   framebuffer_resized, window_extent, gpu_compute, gpu_graphics, tick, history>>

\* lines 121-125, lines 540-556: record the slot's raytrace_command_buffer and
\* submit it, on the dedicated compute queue if there is one, else on the
\* graphics queue; raytrace_work_fence is the submission's fence
SubmitCompute ==
    /\ pc = "record_compute"
    /\ per_frame_data' = [per_frame_data EXCEPT
                              ![cur].raytrace_command_buffer =
                                  RecordedCompute(per_frame_data[cur].output_image)]
    /\ gpu_compute' = [gpu_compute EXCEPT ![cur] = TRUE]
    /\ tick' = [tick EXCEPT !.compute_submits = @ + 1]
    /\ history' = [history EXCEPT !.rt_waited[cur] = FALSE]
    /\ pc' = "wait_command_fence"
    /\ UNCHANGED <<current_frame_index, sync_resources,
                   frames_inflight_fences, compute_queue, startup, vkb_swapchain,
                   swapchain_image_views, framebuffers, swapchain_image_index,
                   framebuffer_resized, window_extent, gpu_graphics>>

\* lines 127-130: command_fence.wait() returns once the fence is signaled, then
\* command_buffer.reset()
WaitCommandFence ==
    /\ pc = "wait_command_fence"
    /\ sync_resources[cur].command_fence
    /\ history' = [history EXCEPT !.cmd_waited[cur] = TRUE]
    /\ pc' = "acquire"
    /\ UNCHANGED <<current_frame_index, per_frame_data, sync_resources,
                   frames_inflight_fences,
                   compute_queue, startup, vkb_swapchain, swapchain_image_views, framebuffers,
                   swapchain_image_index, framebuffer_resized, window_extent,
                   gpu_compute, gpu_graphics, tick>>

\* lines 132-146: vkAcquireNextImageKHR and the branch on its result. A result
\* that is neither success, suboptimal nor out-of-date reaches assert(false):
\* the process aborts, or (assertions compiled out) draw() goes on with
\* swapchain_image_index never written, i.e. holding any value.
AcquirePresentImage ==
    /\ pc = "acquire"
    /\ \E result \in AcquireResults :
        \/ /\ result = "VK_ERROR_OUT_OF_DATE_KHR"
           /\ pc' = "stale_reinit"
           /\ tick' = [tick EXCEPT !.stale = TRUE]
           /\ UNCHANGED swapchain_image_index
        \/ /\ result \in {"VK_SUCCESS", "VK_SUBOPTIMAL_KHR"}
           /\ \E i \in 0..(vkb_swapchain.image_count - 1) : swapchain_image_index' = i
           /\ pc' = "record_graphics"
           /\ UNCHANGED tick
        \/ /\ result = "VK_ERROR"
           /\ \/ /\ pc' = "aborted"
                 /\ UNCHANGED swapchain_image_index
              \/ /\ \E i \in 0..MaxImages : swapchain_image_index' = i
                 /\ pc' = "record_graphics"
           /\ tick' = [tick EXCEPT !.off_nominal = TRUE, !.failed = TRUE]
    /\ UNCHANGED <<current_frame_index, per_frame_data, sync_resources,
                   frames_inflight_fences, compute_queue, startup, vkb_swapchain,
                   swapchain_image_views, framebuffers, framebuffer_resized, window_extent,
                   gpu_compute, gpu_graphics, history>>

\* lines 330-347 (and 349-377): RVPT::swapchain_reinit. The framebuffers are
\* cleared and the image views destroyed first, whatever is still in flight;
\* then the build either fails (early return, line 340), or succeeds and
\* swapchain_get_images fails (views stay the destroyed ones, framebuffers are
\* built from them), or everything succeeds. The caller ignores the result.
\* The new swapchain has the image count the builder settles on.
EmptyFramebuffers == [count |-> 0, views_live |-> FALSE]

RebuildSwapchainObjects(return_pc) ==
    \E outcome \in ReinitOutcomes, cnt \in ImageCounts :
        /\ tick' = [tick EXCEPT !.reinits = @ + 1,
                                !.failed = @ \/ outcome # "ok"]
        /\ \/ /\ outcome = "build_failed"
              /\ framebuffers' = EmptyFramebuffers
              /\ swapchain_image_views' = [swapchain_image_views EXCEPT !.live = FALSE]
              /\ UNCHANGED vkb_swapchain
              /\ pc' = return_pc
           \/ /\ outcome = "images_failed"
              /\ vkb_swapchain' = [image_count |-> cnt]
              /\ swapchain_image_views' = [swapchain_image_views EXCEPT !.live = FALSE]
              /\ framebuffers' = [count |-> cnt, views_live |-> FALSE]
              \* swapchain_image_views[i] at line 373 is read past the end of
              \* the vector when the new swapchain has more images
              /\ \/ pc' = return_pc
                 \/ cnt > swapchain_image_views.count /\ pc' = "aborted"
           \/ /\ outcome = "ok"
              /\ vkb_swapchain' = [image_count |-> cnt]
              /\ swapchain_image_views' = [count |-> cnt, live |-> TRUE]
              /\ framebuffers' = [count |-> cnt, views_live |-> TRUE]
              /\ pc' = return_pc

\* swapchain_reinit as the Vulkan tutorial's recreateSwapChain would leave the
\* table: every entry of frames_inflight_fences forgotten
SwapchainReinitClearFences(return_pc) ==
    /\ RebuildSwapchainObjects(return_pc)
    /\ frames_inflight_fences' = [i \in DOMAIN frames_inflight_fences |-> NoFence]
    /\ UNCHANGED <<current_frame_index, per_frame_data, sync_resources>>

\* lines 330-347: swapchain_reinit touches the swapchain, its views and the
\* framebuffers, and nothing of the frame slots, the cursor or the fence table
SwapchainReinit(return_pc) ==
    /\ RebuildSwapchainObjects(return_pc)
    /\ UNCHANGED <<current_frame_index, frames_inflight_fences, per_frame_data,
                   sync_resources>>

\* the Stale branch with the cursor rotated before the return
ReinitOnStaleAdvance ==
    /\ pc = "stale_reinit"
    /\ RebuildSwapchainObjects("idle")
    /\ current_frame_index' = (current_frame_index + 1) % Cardinality(Slots)
    /\ UNCHANGED <<frames_inflight_fences, per_frame_data, sync_resources,
                   compute_queue, startup, swapchain_image_index, framebuffer_resized, window_extent,
                   gpu_compute, gpu_graphics, history>>

\* lines 137-141: the Stale branch, swapchain_reinit() and return
ReinitOnStale ==
    /\ pc = "stale_reinit"
    /\ SwapchainReinit("idle")
    /\ UNCHANGED <<compute_queue, startup, swapchain_image_index, framebuffer_resized, window_extent,
                   gpu_compute, gpu_graphics, history>>

\* line 147, lines 479-538: record_command_buffer; framebuffers.at() throws
\* when the index is not one of the framebuffers
RecordGraphicsPass ==
    /\ pc = "record_graphics"
    /\ IF swapchain_image_index < framebuffers.count
       THEN /\ tick' = [tick EXCEPT !.recorded = @ + 1]
            /\ pc' = "guard"
       ELSE /\ pc' = "aborted"
            /\ UNCHANGED tick
    /\ UNCHANGED <<current_frame_index, per_frame_data, sync_resources,
                   frames_inflight_fences,
                   compute_queue, startup, vkb_swapchain, swapchain_image_views, framebuffers,
                   swapchain_image_index, framebuffer_resized, window_extent,
                   gpu_compute, gpu_graphics, history>>

InTable(i) == (i + 1) \in DOMAIN frames_inflight_fences

\* the wait of lines 149-153 on fence handle h
WaitInflightFence(h) ==
    IF h = NoFence
    THEN pc' = "register" /\ UNCHANGED history
    ELSE IF h \in Slots
    THEN /\ sync_resources[h].command_fence
         /\ history' = [history EXCEPT !.cmd_waited[h] = TRUE]
         /\ pc' = "register"
    ELSE pc' = "aborted" /\ UNCHANGED history

\* lines 149-153 with the vkWaitForFences call left out
GuardImageReuseNoWait ==
    /\ pc = "guard"
    /\ pc' = "register"
    /\ UNCHANGED <<current_frame_index, per_frame_data, sync_resources,
                   frames_inflight_fences, compute_queue, startup, vkb_swapchain,
                   swapchain_image_views, framebuffers, swapchain_image_index,
                   framebuffer_resized, window_extent, gpu_compute, gpu_graphics,
                   tick, history>>

\* lines 149-153: wait on the fence the table holds for the acquired image.
\* The table keeps its initial size (line 40): past its end operator[] reads
\* whatever is there, a null handle, some live fence, or garbage.
GuardImageReuse ==
    /\ pc = "guard"
    /\ IF InTable(swapchain_image_index)
       THEN WaitInflightFence(frames_inflight_fences[swapchain_image_index + 1])
       ELSE \E h \in {NoFence, InvalidFence} \cup Slots : WaitInflightFence(h)
    /\ UNCHANGED <<current_frame_index, per_frame_data, sync_resources,
                   frames_inflight_fences, compute_queue, startup, vkb_swapchain,
                   swapchain_image_views, framebuffers, swapchain_image_index,
                   framebuffer_resized, window_extent, gpu_compute, gpu_graphics,
                   tick>>

\* lines 154-157 without the submit of line 157: the fence is reset and nothing
\* will signal it
RegisterNoSubmit ==
    /\ pc = "register"
    /\ frames_inflight_fences' =
           IF InTable(swapchain_image_index)
           THEN [frames_inflight_fences EXCEPT ![swapchain_image_index + 1] = cur]
           ELSE frames_inflight_fences
    /\ sync_resources' = [sync_resources EXCEPT ![cur].command_fence = FALSE]
    /\ tick' = [tick EXCEPT !.registered = @ + 1]
    /\ pc' = "present"
    /\ UNCHANGED <<current_frame_index, per_frame_data, compute_queue, startup,
                   vkb_swapchain, swapchain_image_views, framebuffers,
                   swapchain_image_index, framebuffer_resized, window_extent,
                   gpu_compute, gpu_graphics, history>>

\* lines 154-157: register command_fence for the image, reset it, submit the
\* graphics command buffer with it (SyncResources::submit). A write past the
\* end of the table lands outside the vector.
RegisterAndSubmit ==
    /\ pc = "register"
    /\ frames_inflight_fences' =
           IF InTable(swapchain_image_index)
           THEN [frames_inflight_fences EXCEPT ![swapchain_image_index + 1] = cur]
           ELSE frames_inflight_fences
    /\ sync_resources' = [sync_resources EXCEPT ![cur].command_fence = FALSE]
    /\ gpu_graphics' = [gpu_graphics EXCEPT
                            ![cur] = [state |-> "queued", image |-> swapchain_image_index]]
    /\ tick' = [tick EXCEPT !.registered = @ + 1, !.submitted = @ + 1]
    /\ history' = [history EXCEPT !.cmd_waited[cur] = FALSE]
    /\ pc' = "present"
    /\ UNCHANGED <<current_frame_index, per_frame_data, compute_queue, startup, vkb_swapchain,
                   swapchain_image_views, framebuffers, swapchain_image_index,
                   framebuffer_resized, window_extent, gpu_compute>>

\* line 161: the condition under which draw() rebuilds after the present
PresentTrigger(result) ==
    \/ result \in {"VK_ERROR_OUT_OF_DATE_KHR", "VK_SUBOPTIMAL_KHR"}
    \/ framebuffer_resized

\* lines 159-170 with the rebuild of lines 163-164 left to a later tick: the
\* flag stays set and the tick goes on to line 171
PresentDeferRebuild ==
    /\ pc = "present"
    /\ \E result \in PresentResults :
        /\ tick' = [tick EXCEPT !.presents = @ + 1,
                                !.off_nominal = @ \/ result # "VK_SUCCESS"
                                                  \/ framebuffer_resized,
                                !.present_trigger = PresentTrigger(result),
                                !.failed = @ \/ result = "VK_ERROR"]
        /\ framebuffer_resized' = PresentTrigger(result)
        /\ IF result = "VK_ERROR"
           THEN pc' \in {"aborted", "advance"}
           ELSE pc' = "advance"
    /\ UNCHANGED <<current_frame_index, per_frame_data, sync_resources,
                   frames_inflight_fences, compute_queue, startup, vkb_swapchain,
                   swapchain_image_views, framebuffers, swapchain_image_index,
                   window_extent, gpu_compute, gpu_graphics, history>>

\* lines 159-170 with the condition of line 161 always taken
PresentAlwaysReinit ==
    /\ pc = "present"
    /\ \E result \in PresentResults :
        /\ tick' = [tick EXCEPT !.presents = @ + 1,
                                !.off_nominal = @ \/ result # "VK_SUCCESS"
                                                  \/ framebuffer_resized,
                                !.present_trigger = PresentTrigger(result),
                                !.failed = @ \/ result = "VK_ERROR"]
        /\ pc' = "present_reinit"
    /\ UNCHANGED <<current_frame_index, per_frame_data, sync_resources,
                   frames_inflight_fences, compute_queue, startup, vkb_swapchain,
                   swapchain_image_views, framebuffers, swapchain_image_index,
                   framebuffer_resized, window_extent, gpu_compute, gpu_graphics,
                   history>>

\* lines 159-170: present and the branch on its result
Present ==
    /\ pc = "present"
    /\ \E result \in PresentResults :
        /\ tick' = [tick EXCEPT !.presents = @ + 1,
                                !.off_nominal = @ \/ result # "VK_SUCCESS"
                                                  \/ framebuffer_resized,
                                !.present_trigger = PresentTrigger(result),
                                !.failed = @ \/ result = "VK_ERROR"]
        /\ IF PresentTrigger(result)
           THEN pc' = "present_reinit"
           ELSE IF result # "VK_SUCCESS"
           THEN pc' \in {"aborted", "advance"}
           ELSE pc' = "advance"
    /\ UNCHANGED <<current_frame_index, per_frame_data, sync_resources,
                   frames_inflight_fences, compute_queue, startup, vkb_swapchain,
                   swapchain_image_views, framebuffers, swapchain_image_index,
                   framebuffer_resized, window_extent, gpu_compute, gpu_graphics,
                   history>>

\* lines 161-165: framebuffer_resized = false; swapchain_reinit()
ReinitAfterPresent ==
    /\ pc = "present_reinit"
    /\ framebuffer_resized' = FALSE
    /\ SwapchainReinit("advance")
    /\ UNCHANGED <<window_extent, compute_queue, startup, swapchain_image_index, gpu_compute, gpu_graphics,
                   history>>

\* lines 171-173 with line 171 left out: the tick returns success and the cursor
\* stays
AdvanceStay ==
    /\ pc = "advance"
    /\ swapchain_image_index' = NoIndex
    /\ history' = [history EXCEPT !.completed = (@ + 1) % Cardinality(Slots)]
    /\ pc' = "idle"
    /\ UNCHANGED <<current_frame_index, per_frame_data, sync_resources,
                   frames_inflight_fences, compute_queue, startup, vkb_swapchain,
                   swapchain_image_views, framebuffers, framebuffer_resized,
                   window_extent, gpu_compute, gpu_graphics, tick>>

\* lines 171-173: rotate the cursor and return
Advance ==
    /\ pc = "advance"
    /\ current_frame_index' = (current_frame_index + 1) % Cardinality(Slots)
    /\ swapchain_image_index' = NoIndex
    /\ history' = [history EXCEPT !.completed = (@ + 1) % Cardinality(Slots)]
    /\ pc' = "idle"
    /\ UNCHANGED <<per_frame_data, sync_resources, frames_inflight_fences,
                   compute_queue, startup, vkb_swapchain, swapchain_image_views,
                   framebuffers, framebuffer_resized, window_extent, gpu_compute,
                   gpu_graphics, tick>>

\* ------------------------------------------------------- the GPU, the window
\* The GPU is followed while the process runs; after an abort the run is over.
\* the compute submission of slot s finishes and signals raytrace_work_fence
GpuFinishCompute(s) ==
    /\ pc # "aborted"
    /\ gpu_compute[s]
    /\ gpu_compute' = [gpu_compute EXCEPT ![s] = FALSE]
    /\ per_frame_data' = [per_frame_data EXCEPT ![s].raytrace_work_fence = TRUE]
    /\ UNCHANGED <<pc, current_frame_index, sync_resources, frames_inflight_fences,
                   compute_queue, startup, vkb_swapchain, swapchain_image_views, framebuffers,
                   swapchain_image_index, framebuffer_resized, window_extent,
                   gpu_graphics, tick, history>>

\* The graphics submission in flight for slot s was made by an earlier tick than
\* the compute submission in flight for s: draw() is between lines 113 and 129
\* of a tick on s, whose own graphics submission is still to come.
FromEarlierTick(s) ==
    /\ s = cur
    /\ pc \in {"update", "record_compute", "wait_command_fence"}

\* the graphics submission of slot s executes: its fragment shader samples the
\* slot's output image, and the submission signals command_fence. The pipeline
\* barrier of lines 484-497 orders it after the compute commands submitted
\* before it on the same queue, and after nothing on another queue.
GpuRunGraphics(s) ==
    /\ pc # "aborted"
    /\ gpu_graphics[s].state = "queued"
    /\ (~compute_queue /\ ~FromEarlierTick(s)) => ~gpu_compute[s]
    /\ gpu_graphics' = [gpu_graphics EXCEPT ![s] = NoWork]
    /\ sync_resources' = [sync_resources EXCEPT ![s].command_fence = TRUE]
    /\ UNCHANGED <<pc, current_frame_index, per_frame_data, frames_inflight_fences,
                   compute_queue, startup, vkb_swapchain, swapchain_image_views, framebuffers,
                   swapchain_image_index, framebuffer_resized, window_extent,
                   gpu_compute, tick, history>>

\* the window is resized between two ticks, possibly to nothing (minimised):
\* the resize notification sets framebuffer_resized
WindowResize ==
    /\ pc = "idle"
    /\ \E e \in WindowExtents : window_extent' = e
    /\ framebuffer_resized' = TRUE
    /\ UNCHANGED <<pc, current_frame_index, per_frame_data, sync_resources,
                   frames_inflight_fences, compute_queue, startup, vkb_swapchain,
                   swapchain_image_views, framebuffers, swapchain_image_index,
                   gpu_compute, gpu_graphics, tick, history>>

Next ==
    \/ SelectSlot
    \/ UpdateHostData
    \/ SubmitCompute
    \/ WaitCommandFence
    \/ AcquirePresentImage
    \/ ReinitOnStale
    \/ RecordGraphicsPass
    \/ GuardImageReuse
    \/ RegisterAndSubmit
    \/ Present
    \/ ReinitAfterPresent
    \/ Advance
    \/ \E s \in Slots : GpuFinishCompute(s)
    \/ \E s \in Slots : GpuRunGraphics(s)
    \/ WindowResize

Spec == Init /\ [][Next]_vars

\* ------------------------------------ main() and RVPT::initialize, lines 27-67
\* before main() calls initialize(): nothing exists yet
StartupInit ==
    \E n \in 1..MAX_FRAMES_IN_FLIGHT :
        /\ pc = "startup"
        /\ current_frame_index = 0
        /\ per_frame_data = [s \in {} |-> NewPerFrameData(s)]
        /\ sync_resources = [s \in {} |-> NewSyncResources]
        /\ frames_inflight_fences = <<>>
        /\ compute_queue = FALSE
        /\ vkb_swapchain = [image_count |-> 0]
        /\ swapchain_image_views = [count |-> 0, live |-> FALSE]
        /\ framebuffers = EmptyFramebuffers
        /\ swapchain_image_index = NoIndex
        /\ framebuffer_resized = FALSE
        /\ window_extent = "positive"
        /\ gpu_compute = [s \in {} |-> FALSE]
        /\ gpu_graphics = [s \in {} |-> NoWork]
        /\ tick = NewTick(0)
        /\ history = [rt_waited |-> [s \in {} |-> FALSE],
                      cmd_waited |-> [s \in {} |-> FALSE],
                      completed |-> 0]
        /\ startup = [pc |-> "context_init", init |-> TRUE, frames |-> n,
                      context |-> {}, destroyed |-> <<>>, busy |-> FALSE]

StartupStep(from, to) ==
    /\ startup.pc = from
    /\ startup' = [startup EXCEPT !.pc = to]

\* line 29, lines 241-315: context_init creates the instance, the surface, the
\* physical and logical device and the queues, and returns false at the first
\* that fails; a dedicated compute queue is optional
ContextInit ==
    /\ startup.pc = "context_init"
    /\ \E k \in 0..Len(ContextOrder), cq \in BOOLEAN :
        /\ startup' = [startup EXCEPT !.pc = "create_builders",
                                      !.init = (k = Len(ContextOrder)),
                                      !.context = ContextObjects(k)]
        /\ compute_queue' = (cq /\ k = Len(ContextOrder))
    /\ UNCHANGED <<pc, current_frame_index, per_frame_data, sync_resources,
                   frames_inflight_fences, vkb_swapchain, swapchain_image_views,
                   framebuffers, swapchain_image_index, framebuffer_resized,
                   window_extent, gpu_compute, gpu_graphics, tick, history>>

\* lines 30-32: pipeline_builder and memory_allocator are built around vk_device
\* and the physical device, whatever context_init returned
CreateBuilders ==
    /\ StartupStep("create_builders", "swapchain_init")
    /\ UNCHANGED <<pc, current_frame_index, per_frame_data, sync_resources,
                   frames_inflight_fences, compute_queue, vkb_swapchain,
                   swapchain_image_views, framebuffers, swapchain_image_index,
                   framebuffer_resized, window_extent, gpu_compute, gpu_graphics,
                   tick, history>>

\* line 34, lines 317-328: init &= swapchain_init(). Without a device the
\* builder works on a default-constructed vkb::Device: the build fails or the
\* process dies in it.
SwapchainInit ==
    /\ startup.pc = "swapchain_init"
    /\ IF "device" \notin startup.context
       THEN /\ \E to \in {"create_sync_resources", "aborted"} :
                 startup' = [startup EXCEPT !.pc = to, !.init = FALSE]
            /\ UNCHANGED <<vkb_swapchain, swapchain_image_views>>
       ELSE \E outcome \in ReinitOutcomes, cnt \in ImageCounts :
            \/ /\ outcome = "build_failed"
               /\ startup' = [startup EXCEPT !.pc = "create_sync_resources",
                                             !.init = FALSE]
               /\ UNCHANGED <<vkb_swapchain, swapchain_image_views>>
            \/ /\ outcome = "images_failed"
               /\ startup' = [startup EXCEPT !.pc = "create_sync_resources",
                                             !.init = FALSE]
               /\ vkb_swapchain' = [image_count |-> cnt]
               /\ UNCHANGED swapchain_image_views
            \/ /\ outcome = "ok"
               /\ startup' = [startup EXCEPT !.pc = "create_sync_resources"]
               /\ vkb_swapchain' = [image_count |-> cnt]
               /\ swapchain_image_views' = [count |-> cnt, live |-> TRUE]
    /\ UNCHANGED <<pc, current_frame_index, per_frame_data, sync_resources,
                   frames_inflight_fences, compute_queue, framebuffers,
                   swapchain_image_index, framebuffer_resized, window_extent,
                   gpu_compute, gpu_graphics, tick, history>>

\* lines 35-39: one SyncResources per frame in flight; graphics_queue.value()
\* and present_queue.value() throw when the queue was never created
CreateSyncResources ==
    /\ startup.pc = "create_sync_resources"
    /\ IF {"graphics_queue", "present_queue"} \subseteq startup.context
       THEN /\ sync_resources' = [s \in 0..(startup.frames - 1) |-> NewSyncResources]
            /\ gpu_graphics' = [s \in 0..(startup.frames - 1) |-> NoWork]
            /\ history' = [history EXCEPT
                               !.cmd_waited = [s \in 0..(startup.frames - 1) |-> FALSE]]
            /\ startup' = [startup EXCEPT !.pc = "resize_fence_table"]
       ELSE /\ startup' = [startup EXCEPT !.pc = "aborted"]
            /\ UNCHANGED <<sync_resources, gpu_graphics, history>>
    /\ UNCHANGED <<pc, current_frame_index, per_frame_data, frames_inflight_fences,
                   compute_queue, vkb_swapchain, swapchain_image_views,
                   framebuffers, swapchain_image_index, framebuffer_resized,
                   window_extent, gpu_compute, tick>>

\* line 40: frames_inflight_fences.resize(vkb_swapchain.image_count, nullptr)
ResizeFenceTable ==
    /\ StartupStep("resize_fence_table", "create_render_pass")
    /\ frames_inflight_fences' = [i \in 1..vkb_swapchain.image_count |-> NoFence]
    /\ UNCHANGED <<pc, current_frame_index, per_frame_data, sync_resources,
                   compute_queue, vkb_swapchain, swapchain_image_views,
                   framebuffers, swapchain_image_index, framebuffer_resized,
                   window_extent, gpu_compute, gpu_graphics, tick, history>>

\* lines 42-45: the render pass for the swapchain's image format, and imgui
CreateRenderPass ==
    /\ StartupStep("create_render_pass", "create_framebuffers")
    /\ UNCHANGED <<pc, current_frame_index, per_frame_data, sync_resources,
                   frames_inflight_fences, compute_queue, vkb_swapchain,
                   swapchain_image_views, framebuffers, swapchain_image_index,
                   framebuffer_resized, window_extent, gpu_compute, gpu_graphics,
                   tick, history>>

\* line 47, lines 368-377: one framebuffer per swapchain image, from
\* swapchain_image_views[i], read past the end when the views were not retrieved
InitCreateFramebuffers ==
    /\ startup.pc = "create_framebuffers"
    /\ framebuffers' =
           [count |-> vkb_swapchain.image_count,
            views_live |-> /\ swapchain_image_views.live
                           /\ swapchain_image_views.count >= vkb_swapchain.image_count]
    /\ \/ startup' = [startup EXCEPT !.pc = "create_rendering_resources"]
       \/ /\ vkb_swapchain.image_count > swapchain_image_views.count
          /\ startup' = [startup EXCEPT !.pc = "aborted"]
    /\ UNCHANGED <<pc, current_frame_index, per_frame_data, sync_resources,
                   frames_inflight_fences, compute_queue, vkb_swapchain,
                   swapchain_image_views, swapchain_image_index,
                   framebuffer_resized, window_extent, gpu_compute, gpu_graphics,
                   tick, history>>

\* lines 49-57, lines 379-405: the spheres and create_rendering_resources
CreateRenderingResources ==
    /\ StartupStep("create_rendering_resources", "add_per_frame_data")
    /\ UNCHANGED <<pc, current_frame_index, per_frame_data, sync_resources,
                   frames_inflight_fences, compute_queue, vkb_swapchain,
                   swapchain_image_views, framebuffers, swapchain_image_index,
                   framebuffer_resized, window_extent, gpu_compute, gpu_graphics,
                   tick, history>>

\* lines 59-62, lines 407-477: add_per_frame_data, once per frame in flight
AddPerFrameData ==
    /\ startup.pc = "add_per_frame_data"
    /\ LET s == Cardinality(DOMAIN per_frame_data) IN
        /\ per_frame_data' = [x \in 0..s |->
                                 IF x = s THEN NewPerFrameData(s) ELSE per_frame_data[x]]
        /\ gpu_compute' = [x \in 0..s |-> FALSE]
        /\ history' = [history EXCEPT !.rt_waited = [x \in 0..s |-> FALSE]]
        /\ startup' = [startup EXCEPT
                           !.pc = IF s + 1 = startup.frames
                                  THEN "return" ELSE "add_per_frame_data"]
    /\ UNCHANGED <<pc, current_frame_index, sync_resources, frames_inflight_fences,
                   compute_queue, vkb_swapchain, swapchain_image_views,
                   framebuffers, swapchain_image_index, framebuffer_resized,
                   window_extent, gpu_graphics, tick>>

\* lines 64-66: return init
ReturnInit ==
    /\ StartupStep("return", "main_check")
    /\ UNCHANGED <<pc, current_frame_index, per_frame_data, sync_resources,
                   frames_inflight_fences, compute_queue, vkb_swapchain,
                   swapchain_image_views, framebuffers, swapchain_image_index,
                   framebuffer_resized, window_extent, gpu_compute, gpu_graphics,
                   tick, history>>

\* main.cpp lines 16-26: leave when initialize() returned false, else enter the
\* loop
MainCheck ==
    /\ startup.pc = "main_check"
    /\ IF startup.init
       THEN /\ startup' = [startup EXCEPT !.pc = "render_loop"]
            /\ pc' = "idle"
       ELSE /\ startup' = [startup EXCEPT !.pc = "exited"]
            /\ UNCHANGED pc
    /\ UNCHANGED <<current_frame_index, per_frame_data, sync_resources,
                   frames_inflight_fences, compute_queue, vkb_swapchain,
                   swapchain_image_views, framebuffers, swapchain_image_index,
                   framebuffer_resized, window_extent, gpu_compute, gpu_graphics,
                   tick, history>>

StartupNext ==
    \/ ContextInit
    \/ CreateBuilders
    \/ SwapchainInit
    \/ CreateSyncResources
    \/ ResizeFenceTable
    \/ CreateRenderPass
    \/ InitCreateFramebuffers
    \/ CreateRenderingResources
    \/ AddPerFrameData
    \/ ReturnInit
    \/ MainCheck

StartupSpec == StartupInit /\ [][StartupNext]_vars

\* ----------------------------------------- RVPT::shutdown, lines 176-200
\* some submission has not finished executing
InFlight ==
    \E s \in DOMAIN gpu_compute : gpu_compute[s] \/ gpu_graphics[s] # NoWork

\* Queue::wait_idle returns once everything submitted to the queue has finished:
\* the compute submissions on the dedicated compute queue; the graphics
\* submissions, and without a dedicated queue the compute submissions too, on
\* the graphics queue. Presentation requests are not followed here.
QueueIdle(q) ==
    CASE q = "compute" -> \A s \in DOMAIN gpu_compute : ~gpu_compute[s]
      [] q = "graphics" -> \A s \in DOMAIN gpu_graphics :
                               /\ gpu_graphics[s] = NoWork
                               /\ ~compute_queue => ~gpu_compute[s]
      [] q = "present" -> TRUE

\* the parts of the state shutdown() never touches
NotShutDown ==
    <<current_frame_index, frames_inflight_fences, compute_queue,
      swapchain_image_index, framebuffer_resized, window_extent, gpu_compute,
      gpu_graphics, tick, history>>

\* one statement of shutdown() that destroys obj
ShutdownStep(from, to, obj) ==
    /\ startup.pc = from
    /\ startup' = [startup EXCEPT !.pc = to, !.destroyed = Append(@, obj)]

\* line 178, between two ticks: if (compute_queue) compute_queue->wait_idle()
ShutdownWaitCompute ==
    /\ pc = "idle"
    /\ startup.pc = "render_loop"
    /\ compute_queue => QueueIdle("compute")
    /\ pc' = "shutdown"
    /\ startup' = [startup EXCEPT !.pc = "wait_graphics", !.busy = InFlight]
    /\ UNCHANGED <<per_frame_data, sync_resources, vkb_swapchain,
                   swapchain_image_views, framebuffers, NotShutDown>>

\* shutdown() without line 179: destruction starts while the graphics queue is
\* still executing
ShutdownSkipWaitGraphics ==
    /\ startup.pc = "wait_graphics"
    /\ startup' = [startup EXCEPT !.pc = "wait_present"]
    /\ UNCHANGED <<pc, per_frame_data, sync_resources, vkb_swapchain,
                   swapchain_image_views, framebuffers, NotShutDown>>

\* line 179: graphics_queue->wait_idle()
ShutdownWaitGraphics ==
    /\ startup.pc = "wait_graphics"
    /\ QueueIdle("graphics")
    /\ startup' = [startup EXCEPT !.pc = "wait_present"]
    /\ UNCHANGED <<pc, per_frame_data, sync_resources, vkb_swapchain,
                   swapchain_image_views, framebuffers, NotShutDown>>

\* line 180: present_queue->wait_idle()
ShutdownWaitPresent ==
    /\ startup.pc = "wait_present"
    /\ QueueIdle("present")
    /\ startup' = [startup EXCEPT !.pc = "clear_per_frame_data"]
    /\ UNCHANGED <<pc, per_frame_data, sync_resources, vkb_swapchain,
                   swapchain_image_views, framebuffers, NotShutDown>>

\* line 182: per_frame_data.clear()
ClearPerFrameData ==
    /\ ShutdownStep("clear_per_frame_data", "reset_rendering_resources",
                    "per_frame_data")
    /\ per_frame_data' = [s \in {} |-> NewPerFrameData(s)]
    /\ UNCHANGED <<pc, sync_resources, vkb_swapchain, swapchain_image_views,
                   framebuffers, NotShutDown>>

\* line 183: rendering_resources.reset()
ResetRenderingResources ==
    /\ ShutdownStep("reset_rendering_resources", "reset_imgui", "rendering_resources")
    /\ UNCHANGED <<pc, per_frame_data, sync_resources, vkb_swapchain,
                   swapchain_image_views, framebuffers, NotShutDown>>

\* line 185: imgui_impl.reset()
ResetImgui ==
    /\ ShutdownStep("reset_imgui", "destroy_render_pass", "imgui_impl")
    /\ UNCHANGED <<pc, per_frame_data, sync_resources, vkb_swapchain,
                   swapchain_image_views, framebuffers, NotShutDown>>

\* line 187: VK::destroy_render_pass(vk_device, fullscreen_tri_render_pass)
DestroyRenderPass ==
    /\ ShutdownStep("destroy_render_pass", "clear_framebuffers",
                    "fullscreen_tri_render_pass")
    /\ UNCHANGED <<pc, per_frame_data, sync_resources, vkb_swapchain,
                   swapchain_image_views, framebuffers, NotShutDown>>

\* line 189: framebuffers.clear()
ClearFramebuffers ==
    /\ ShutdownStep("clear_framebuffers", "clear_sync_resources", "framebuffers")
    /\ framebuffers' = EmptyFramebuffers
    /\ UNCHANGED <<pc, per_frame_data, sync_resources, vkb_swapchain,
                   swapchain_image_views, NotShutDown>>

\* line 191: sync_resources.clear()
ClearSyncResources ==
    /\ ShutdownStep("clear_sync_resources", "destroy_image_views", "sync_resources")
    /\ sync_resources' = [s \in {} |-> NewSyncResources]
    /\ UNCHANGED <<pc, per_frame_data, vkb_swapchain, swapchain_image_views,
                   framebuffers, NotShutDown>>

\* line 192: vkb_swapchain.destroy_image_views(swapchain_image_views)
DestroyImageViews ==
    /\ ShutdownStep("destroy_image_views", "shutdown_memory_allocator",
                    "swapchain_image_views")
    /\ swapchain_image_views' = [swapchain_image_views EXCEPT !.live = FALSE]
    /\ UNCHANGED <<pc, per_frame_data, sync_resources, vkb_swapchain, framebuffers,
                   NotShutDown>>

\* line 194: memory_allocator.shutdown()
ShutdownMemoryAllocator ==
    /\ ShutdownStep("shutdown_memory_allocator", "shutdown_pipeline_builder",
                    "memory_allocator")
    /\ UNCHANGED <<pc, per_frame_data, sync_resources, vkb_swapchain,
                   swapchain_image_views, framebuffers, NotShutDown>>

\* line 195: pipeline_builder.shutdown()
ShutdownPipelineBuilder ==
    /\ ShutdownStep("shutdown_pipeline_builder", "destroy_swapchain",
                    "pipeline_builder")
    /\ UNCHANGED <<pc, per_frame_data, sync_resources, vkb_swapchain,
                   swapchain_image_views, framebuffers, NotShutDown>>

\* line 196: vkb::destroy_swapchain(vkb_swapchain)
DestroySwapchain ==
    /\ ShutdownStep("destroy_swapchain", "destroy_device", "vkb_swapchain")
    /\ vkb_swapchain' = [image_count |-> 0]
    /\ UNCHANGED <<pc, per_frame_data, sync_resources, swapchain_image_views,
                   framebuffers, NotShutDown>>

\* line 197: vkb::destroy_device(context.device); its queues go with it
DestroyDevice ==
    /\ startup.pc = "destroy_device"
    /\ startup' = [startup EXCEPT
                       !.pc = "destroy_surface",
                       !.destroyed = Append(@, "device"),
                       !.context = @ \ {"device", "graphics_queue", "present_queue"}]
    /\ UNCHANGED <<pc, per_frame_data, sync_resources, vkb_swapchain,
                   swapchain_image_views, framebuffers, NotShutDown>>

\* line 198: vkDestroySurfaceKHR(context.inst.instance, context.surf, nullptr)
DestroySurface ==
    /\ startup.pc = "destroy_surface"
    /\ startup' = [startup EXCEPT !.pc = "destroy_instance",
                                  !.destroyed = Append(@, "surf"),
                                  !.context = @ \ {"surf"}]
    /\ UNCHANGED <<pc, per_frame_data, sync_resources, vkb_swapchain,
                   swapchain_image_views, framebuffers, NotShutDown>>

\* line 199: vkb::destroy_instance(context.inst); the physical device was its
DestroyInstance ==
    /\ startup.pc = "destroy_instance"
    /\ startup' = [startup EXCEPT !.pc = "shut_down",
                                  !.destroyed = Append(@, "inst"),
                                  !.context = @ \ {"inst", "physical_device"}]
    /\ UNCHANGED <<pc, per_frame_data, sync_resources, vkb_swapchain,
                   swapchain_image_views, framebuffers, NotShutDown>>

ShutdownNext ==
    \/ ShutdownWaitCompute
    \/ ShutdownWaitGraphics
    \/ ShutdownWaitPresent
    \/ ClearPerFrameData
    \/ ResetRenderingResources
    \/ ResetImgui
    \/ DestroyRenderPass
    \/ ClearFramebuffers
    \/ ClearSyncResources
    \/ DestroyImageViews
    \/ ShutdownMemoryAllocator
    \/ ShutdownPipelineBuilder
    \/ DestroySwapchain
    \/ DestroyDevice
    \/ DestroySurface
    \/ DestroyInstance

\* the render loop, ended at some point between two ticks by shutdown()
ShutdownSpec == Init /\ [][Next \/ ShutdownNext]_vars

\* ------------------------------- record_compute_command_buffer, lines 540-556
\* output image widths and heights tried
DimSet == (1..MaxDim) \cup {OutputImageSize}

\* one slot whose output image is w by h, about to record its compute pass
DispatchInit ==
    \E w \in DimSet, h \in DimSet :
        /\ pc = "record_compute"
        /\ current_frame_index = 0
        /\ per_frame_data = [s \in {0} |-> PerFrameDataOf(s, w, h)]
        /\ sync_resources = [s \in {0} |-> NewSyncResources]
        /\ frames_inflight_fences = <<NoFence>>
        /\ compute_queue = FALSE
        /\ vkb_swapchain = [image_count |-> 1]
        /\ swapchain_image_views = [count |-> 1, live |-> TRUE]
        /\ framebuffers = [count |-> 1, views_live |-> TRUE]
        /\ swapchain_image_index = NoIndex
        /\ framebuffer_resized = FALSE
        /\ window_extent = "positive"
        /\ gpu_compute = [s \in {0} |-> FALSE]
        /\ gpu_graphics = [s \in {0} |-> NoWork]
        /\ tick = NewTick(0)
        /\ history = [rt_waited |-> [s \in {0} |-> TRUE],
                      cmd_waited |-> [s \in {0} |-> FALSE],
                      completed |-> 0]
        /\ startup = StartupDone(1)

\* lines 540-556: record the slot's compute command buffer
RecordComputeCommandBuffer ==
    /\ pc = "record_compute"
    /\ per_frame_data' = [per_frame_data EXCEPT
                              ![cur].raytrace_command_buffer =
                                  RecordedCompute(per_frame_data[cur].output_image)]
    /\ UNCHANGED <<pc, current_frame_index, sync_resources, frames_inflight_fences,
                   compute_queue, startup, vkb_swapchain, swapchain_image_views,
                   framebuffers, swapchain_image_index, framebuffer_resized,
                   window_extent, gpu_compute, gpu_graphics, tick, history>>

DispatchSpec == DispatchInit /\ [][RecordComputeCommandBuffer]_vars

\* --------------------------------------------------------------- fairness
\* the steps of a tick once it has started
TickStep ==
    \/ UpdateHostData
    \/ SubmitCompute
    \/ WaitCommandFence
    \/ AcquirePresentImage
    \/ ReinitOnStale
    \/ RecordGraphicsPass
    \/ GuardImageReuse
    \/ RegisterAndSubmit
    \/ Present
    \/ ReinitAfterPresent
    \/ Advance

\* the GPU completes a submission
GpuStep ==
    \E s \in Slots : GpuFinishCompute(s) \/ GpuRunGraphics(s)

\* the host thread keeps running a tick it has started, acquire and present
\* return, and the GPU completes what was submitted to it
FairSpec == Spec /\ WF_vars(TickStep) /\ WF_vars(GpuStep)

\* ================================================================== claims
Entry(i) == frames_inflight_fences[i + 1]
ReinitStep == tick'.reinits = tick.reinits + 1

\* C1 (frame fencing): the host writes a slot's buffers (lines 115-119) and
\* re-records its compute command buffer (line 121) only when no compute
\* submission of that slot is still in flight on the GPU.
FrameFencing ==
    pc \in {"update", "record_compute"} => ~gpu_compute[cur]

\* a tick has passed the wait of line 112 on a slot that an earlier tick used
\* (that tick's graphics submission is still in flight)
FrameFencingWitness ==
    /\ pc = "update"
    /\ gpu_graphics[cur].state = "queued"
    /\ ~gpu_compute[cur]

\* C2 (compute before graphics): whenever a tick's graphics submission executes,
\* that tick's compute submission has finished, with or without a dedicated
\* compute queue.
ComputeBeforeGraphics ==
    [][\A s \in Slots :
          (/\ gpu_graphics[s].state = "queued"
           /\ gpu_graphics'[s].state = "none"
           /\ ~FromEarlierTick(s)) => ~gpu_compute[s]]_vars

\* C3 (image reuse ordering): no two graphics submissions in flight target the
\* same swapchain image index.
ImageReuseOrdering ==
    \A s1, s2 \in Slots :
        (/\ s1 # s2
         /\ gpu_graphics[s1].state = "queued"
         /\ gpu_graphics[s2].state = "queued")
        => gpu_graphics[s1].image # gpu_graphics[s2].image

\* C4 as stated (guard wait precedes recording): once the tick's graphics
\* command buffer has been recorded, the fence the table holds for the acquired
\* image is signaled.
RecordAfterGuard ==
    (/\ pc = "guard"
     /\ InTable(swapchain_image_index)
     /\ Entry(swapchain_image_index) # NoFence)
    => sync_resources[Entry(swapchain_image_index)].command_fence

\* C4 amended (image reuse on submission): the command buffer is recorded
\* before the guard wait, nothing is submitted before the wait is over, and
\* when draw() is about to submit (line 157) the fence the table holds for the
\* acquired image is signaled.
SubmitAfterGuard ==
    /\ pc = "guard" => (tick.recorded = 1 /\ tick.submitted = 0)
    /\ pc = "register" =>
          /\ tick.recorded = 1
          /\ tick.submitted = 0
          /\ (/\ InTable(swapchain_image_index)
              /\ Entry(swapchain_image_index) # NoFence)
             => sync_resources[Entry(swapchain_image_index)].command_fence

\* a tick is about to submit for an image that another slot registered
SubmitAfterGuardWitness ==
    /\ pc = "register"
    /\ InTable(swapchain_image_index)
    /\ Entry(swapchain_image_index) \in Slots \ {cur}
    /\ tick.recorded = 1

\* C5 as stated (fence reuse): a wait on a fence (line 112, line 129, line 151)
\* happens only if the fence was submitted with since the previous wait on it.
FenceReuse ==
    [][/\ (pc = "idle" /\ pc' = "update") => ~history.rt_waited[cur]
       /\ (pc = "wait_command_fence" /\ pc' = "acquire") => ~history.cmd_waited[cur]
       /\ (/\ pc = "guard" /\ pc' = "register"
           /\ InTable(swapchain_image_index)
           /\ Entry(swapchain_image_index) \in Slots)
          => ~history.cmd_waited[Entry(swapchain_image_index)]]_vars

\* C5 amended: a raytrace_work_fence that has been waited on is submitted with
\* before draw() goes past line 125, so it is never waited on twice without a
\* submission in between; and every fence that is unsignaled has a submission
\* in flight that will signal it, or is the compute fence of the tick in
\* progress between its reset (line 113) and its submission (line 124).
WorkFenceReuse ==
    \A s \in Slots :
        /\ history.rt_waited[s] => (s = cur /\ pc \in {"update", "record_compute"})
        /\ ~per_frame_data[s].raytrace_work_fence =>
              (gpu_compute[s] \/ (s = cur /\ pc \in {"update", "record_compute"}))
        /\ ~sync_resources[s].command_fence => gpu_graphics[s].state = "queued"

\* the second tick on a slot has waited on raytrace_work_fence again and
\* submitted with it again
WorkFenceReuseWitness ==
    /\ pc = "wait_command_fence"
    /\ tick.compute_submits = 1
    /\ ~history.rt_waited[cur]
    /\ \E i \in DOMAIN frames_inflight_fences : frames_inflight_fences[i] = cur

\* C6 (Stale on acquire): a tick whose acquire returned out-of-date has made its
\* compute submission, records no graphics command buffer, registers no fence
\* in the table, submits no graphics work, presents nothing and leaves the
\* cursor where it was; when it returns, the slot's raytrace_work_fence is
\* unsignaled exactly as long as that compute submission is in flight, so the
\* next tick (on the same slot) waits for it at line 112.
StaleOnAcquire ==
    tick.stale =>
        /\ tick.compute_submits = 1
        /\ tick.recorded = 0
        /\ tick.registered = 0
        /\ tick.submitted = 0
        /\ tick.presents = 0
        /\ current_frame_index = tick.start_index
        /\ pc = "idle" =>
              (per_frame_data[cur].raytrace_work_fence <=> ~gpu_compute[cur])

\* a Stale tick has returned while its compute submission is still in flight
StaleOnAcquireWitness ==
    /\ pc = "idle"
    /\ tick.stale
    /\ tick.reinits = 1
    /\ gpu_compute[cur]
    /\ ~per_frame_data[cur].raytrace_work_fence

RebuildFrameCondition ==
    [][ReinitStep =>
          UNCHANGED <<current_frame_index, frames_inflight_fences, per_frame_data,
                      sync_resources>>]_vars

\* swapchain_reinit has run while the table held the fence of a graphics
\* submission still in flight
RebuildFrameConditionWitness ==
    /\ tick.reinits = 1
    /\ pc \in {"idle", "advance"}
    /\ \E i \in DOMAIN frames_inflight_fences :
          /\ frames_inflight_fences[i] \in Slots
          /\ gpu_graphics[frames_inflight_fences[i]].state = "queued"
          /\ ~sync_resources[frames_inflight_fences[i]].command_fence

\* C9 (swapchain mutated only when idle): swapchain_reinit runs only when no
\* graphics submission is in flight.
RebuildOnlyWhenIdle ==
    [][ReinitStep => \A s \in Slots : gpu_graphics[s].state = "none"]_vars

\* C10 (swapchain consistency): between ticks and at the recording of the
\* graphics pass, the image views are live, there is one per swapchain image,
\* and there is one framebuffer per swapchain image built from a live view.
SwapchainConsistency ==
    pc \in {"idle", "record_graphics"} =>
        /\ swapchain_image_views.live
        /\ swapchain_image_views.count = vkb_swapchain.image_count
        /\ framebuffers.count = vkb_swapchain.image_count
        /\ framebuffers.views_live

DegenerateSurface ==
    (window_extent = "zero" /\ pc \notin {"idle", "aborted"}) =>
        pc \in {"update", "record_compute", "wait_command_fence", "acquire"}

\* C13 (steady-state fatal failures): once a call of the tick has returned a
\* failure (an acquire or present result that is none of success, suboptimal,
\* out-of-date; a swapchain_reinit that returned false), the tick records
\* nothing, submits nothing, presents nothing and does not rotate the cursor.
FatalStopsSubmission ==
    [][tick.failed =>
          /\ tick'.recorded <= tick.recorded
          /\ tick'.submitted <= tick.submitted
          /\ tick'.presents <= tick.presents
          /\ current_frame_index' = current_frame_index]_vars

\* C14 (initialization failure): once a creation has failed (init is false),
\* initialize() attempts no further stage: the only steps left are its return
\* of false and main's exit.
InitFailureAborts ==
    [][~startup.init => startup'.pc \in {"main_check", "exited"}]_vars

\* C15 (round-robin slots): the tick that follows k completed ticks runs on slot
\* k mod N from its first step to its last; a tick that reaches its end has made
\* exactly one compute submission and exactly one present; and the cursor is
\* the number of completed ticks modulo N, so it moves, by one, only when a tick
\* completes.
RoundRobinSlots ==
    /\ current_frame_index = history.completed
    /\ pc # "idle" => tick.start_index = current_frame_index
    /\ pc = "advance" => (tick.compute_submits = 1 /\ tick.presents = 1)

\* with two slots, a tick runs on slot 0 again after a tick on slot 1 has
\* completed
RoundRobinSlotsWitness ==
    /\ pc = "update"
    /\ Cardinality(Slots) = 2
    /\ current_frame_index = 0
    /\ \E i \in DOMAIN frames_inflight_fences : frames_inflight_fences[i] = 1

\* C16 (rebuild idempotence): a run of swapchain_reinit operates only on live
\* objects left by the run before it (or by initialize): the image views it
\* destroys at line 333 are live.
RebuildIdempotence ==
    [][ReinitStep => swapchain_image_views.live]_vars

\* C17 (descriptor-binding stability): at every state each slot's sampling set
\* has the slot's own output image at binding 0, and its compute set has the
\* slot's own output image, camera, random and settings uniform buffers and
\* sphere storage buffer at bindings 0 to 4, as add_per_frame_data wrote them.
DescriptorStability ==
    \A s \in DOMAIN per_frame_data :
        /\ per_frame_data[s].image_descriptor_set = <<<<"output_image", s>>>>
        /\ per_frame_data[s].raytracing_descriptor_sets =
               <<<<"output_image", s>>, <<"camera_uniform", s>>,
                 <<"random_uniform", s>>, <<"settings_uniform", s>>,
                 <<"sphere_buffer", s>>>>

\* the second tick, on slot 1, has updated its buffers, submitted, presented and
\* rebuilt the swapchain
DescriptorStabilityWitness ==
    /\ pc = "advance"
    /\ history.completed = 1
    /\ current_frame_index = 1
    /\ tick.reinits = 1
    /\ per_frame_data[1].raytrace_command_buffer # <<>>
    /\ per_frame_data[1].raytracing_descriptor_sets[5] = <<"sphere_buffer", 1>>

\* C18 (no write-after-read hazard on the output image): when draw() has
\* submitted the compute pass of the slot (line 124) and not yet passed line
\* 129, no graphics submission of an earlier tick on that slot is in flight.
NoWriteAfterRead ==
    (pc = "wait_command_fence" /\ tick.compute_submits = 1) =>
        gpu_graphics[cur].state = "none"

\* C19 (tick termination): no wait of draw() can block forever: in every state
\* in which a tick is under way, either its next step can be taken or the GPU
\* still has a submission to complete; the same holds for the wait of line 112
\* with which the next tick starts. (A tick takes at most one step per position
\* and every GPU step retires a submission, so a tick that is never blocked
\* returns.)
TickNeverBlocked ==
    /\ pc \notin {"idle", "aborted"} => (ENABLED TickStep \/ ENABLED GpuStep)
    /\ pc = "idle" => (ENABLED SelectSlot \/ ENABLED GpuStep)

\* a tick is blocked in the guard wait of lines 149-153 while the GPU still has
\* a submission to complete
TickNeverBlockedWitness ==
    /\ pc = "guard"
    /\ ~ENABLED TickStep
    /\ ENABLED GpuStep

\* the same, as the liveness property it stands for, under FairSpec
TickTermination ==
    (pc \notin {"idle", "aborted"}) ~> (pc \in {"idle", "aborted"})

Recorded(s) == per_frame_data[s].raytrace_command_buffer # <<>>
GroupsX(s) == per_frame_data[s].raytrace_command_buffer[1]
GroupsY(s) == per_frame_data[s].raytrace_command_buffer[2]

CreationOrder ==
    <<"inst", "surf", "device", "pipeline_builder", "memory_allocator",
      "vkb_swapchain", "swapchain_image_views", "sync_resources",
      "fullscreen_tri_render_pass", "imgui_impl", "framebuffers",
      "rendering_resources", "per_frame_data">>

\* the objects each object is created from: the arguments of its construction
CreatedFrom(o) ==
    CASE o = "inst" -> {}
      [] o = "surf" -> {"inst"}
      [] o = "device" -> {"inst", "surf"}
      [] o = "pipeline_builder" -> {"device"}
      [] o = "memory_allocator" -> {"device"}
      [] o = "vkb_swapchain" -> {"device"}
      [] o = "swapchain_image_views" -> {"vkb_swapchain"}
      [] o = "sync_resources" -> {"device", "vkb_swapchain"}
      [] o = "fullscreen_tri_render_pass" -> {"device"}
      [] o = "imgui_impl" -> {"device", "pipeline_builder", "memory_allocator",
                              "fullscreen_tri_render_pass"}
      [] o = "framebuffers" -> {"device", "fullscreen_tri_render_pass",
                                "swapchain_image_views"}
      [] o = "rendering_resources" -> {"device", "pipeline_builder",
                                       "fullscreen_tri_render_pass"}
      [] o = "per_frame_data" -> {"device", "memory_allocator",
                                  "rendering_resources"}

Destroyed == startup.destroyed
DestroyedSet == {Destroyed[i] : i \in DOMAIN Destroyed}
Live == {CreationOrder[i] : i \in DOMAIN CreationOrder} \ DestroyedSet
PositionIn(seq, o) == CHOOSE i \in DOMAIN seq : seq[i] = o
DestroyedBefore(a, b) == PositionIn(Destroyed, a) < PositionIn(Destroyed, b)
CreatedBefore(a, b) == PositionIn(CreationOrder, a) < PositionIn(CreationOrder, b)

\* once shutdown() has destroyed anything, no submission is in flight
IdleBeforeDestruction == Destroyed # <<>> => ~InFlight

\* the frame pool goes before the framebuffers and the image views
FramePoolFirst ==
    \A o \in {"framebuffers", "swapchain_image_views"} :
        o \in DestroyedSet =>
            "per_frame_data" \in DestroyedSet /\ DestroyedBefore("per_frame_data", o)

\* no destroyed object is one a live object was created from
NoLiveReference ==
    \A o \in DestroyedSet, p \in Live : o \notin CreatedFrom(p)

\* what has been destroyed is the end of the creation order, backwards
ReverseOfCreation ==
    \A i \in DOMAIN Destroyed :
        Destroyed[i] = CreationOrder[Len(CreationOrder) + 1 - i]

\* the pairs shutdown() destroys in the order of their creation
KeptInCreationOrder ==
    {<<"fullscreen_tri_render_pass", "framebuffers">>,
     <<"imgui_impl", "framebuffers">>,
     <<"pipeline_builder", "vkb_swapchain">>,
     <<"memory_allocator", "vkb_swapchain">>}

\* C21 as stated: shutdown() destroys nothing before every queue is idle, the
\* frame pool before the framebuffers and image views, no object while a live
\* object created from it remains, and everything in reverse order of creation
ShutdownReverseOrder ==
    /\ IdleBeforeDestruction
    /\ FramePoolFirst
    /\ NoLiveReference
    /\ ReverseOfCreation

\* C21: shutdown() destroys nothing before every queue is idle and the frame
\* pool before the framebuffers and image views; the only object it destroys
\* while a live object created from it remains is the render pass, with the
\* framebuffers still alive; of two objects it destroys the later created first,
\* except that the framebuffers outlive the render pass and imgui, and the
\* swapchain the memory allocator and the pipeline builder
ShutdownOrdering ==
    /\ IdleBeforeDestruction
    /\ FramePoolFirst
    /\ \A o \in DestroyedSet, p \in Live :
           o \in CreatedFrom(p) =>
               o = "fullscreen_tri_render_pass" /\ p = "framebuffers"
    /\ \A a \in DestroyedSet, b \in DestroyedSet :
           CreatedBefore(a, b) =>
               (DestroyedBefore(b, a) <=> <<a, b>> \notin KeptInCreationOrder)

\* shutdown() was called with work in flight and has destroyed everything
ShutdownOrderingWitness ==
    /\ startup.pc = "shut_down"
    /\ startup.busy
    /\ Live = {}
    /\ pc = "shutdown"

\* ------------------------------------------------------- per-image tables
\* the fence table has one entry per image of the current swapchain
FenceTableBounds == Len(frames_inflight_fences) = vkb_swapchain.image_count

\* there is one framebuffer per image of the current swapchain
FramebufferBounds == framebuffers.count = vkb_swapchain.image_count

\* C22 (per-image table bounds): in every reachable state, after any number of
\* rebuilds, frames_inflight_fences and framebuffers each have exactly one entry
\* per current swapchain image, and an acquired image index is a valid index
\* into both (an index is returned by the acquire of a tick in which no call
\* has failed; after a failed acquire the local holds no returned index).
PerImageTableBounds ==
    /\ FenceTableBounds
    /\ FramebufferBounds
    /\ (swapchain_image_index # NoIndex /\ ~tick.failed) =>
           /\ InTable(swapchain_image_index)
           /\ swapchain_image_index < framebuffers.count

====
